---- MODULE Spec2Model ----
(***************************************************************************)
(* Model of _modules/hyperv.py: the PowerShell command runner (_psrun) and *)
(* the Hyper-V operations built on it.                                     *)
(*                                                                         *)
(* Texts (commands, captured output, messages) are sequences of tokens.    *)
(* A call of an operation is one action: it draws the host's answers (the  *)
(* output of `where powershell`, the status code and captured output of    *)
(* the interpreter), runs the whole function body and records             *)
(*   handed  - the commands handed to _psrun, in order,                    *)
(*   calls   - the invocations made through __salt__ (cmd.run and          *)
(*             cmd.run_all), in order, with what each returned,            *)
(*   outcome - the value returned or the exception raised.                 *)
(***************************************************************************)
EXTENDS Integers, Sequences, FiniteSets

VARIABLES pc, op, args, handed, calls, outcome

vars == <<pc, op, args, handed, calls, outcome>>

(***************************************************************************)
(* Bounds                                                                  *)
(***************************************************************************)
\* longest captured output of a direct _psrun call, in tokens
MaxLen == 5
\* longest captured output seen by a public operation, in tokens
MaxOpLen == 3

(***************************************************************************)
(* Texts                                                                   *)
(***************************************************************************)
NL == "\n"
SP == " "
\* characters str.strip() removes and json.loads skips, among the modelled ones
Whitespace == {NL, SP}
\* each of these tokens stands for the text of one JSON object, {...}
Objects == {"o1", "o2"}
\* the tokens captured output is made of
Alphabet == {NL, "[", "]", ","} \cup Objects

TextsUpTo(n) == UNION {[1..k -> Alphabet] : k \in 0..n}

\* t occurs in s as a contiguous run (Python's `t in s` on strings)
Contains(s, t) ==
    \E i \in 0..(Len(s) - Len(t)) : SubSeq(s, i + 1, i + Len(t)) = t

\* str.strip()
Strip(s) ==
    LET keep == {i \in 1..Len(s) : s[i] \notin Whitespace}
    IN  IF keep = {} THEN <<>>
        ELSE LET lo == CHOOSE i \in keep : \A j \in keep : i <= j
                 hi == CHOOSE i \in keep : \A j \in keep : j <= i
             IN  SubSeq(s, lo, hi)

RECURSIVE Join(_, _)
\* sep.join(parts)
Join(parts, sep) ==
    IF Len(parts) = 0 THEN <<>>
    ELSE IF Len(parts) = 1 THEN parts[1]
    ELSE parts[1] \o <<sep>> \o Join(Tail(parts), sep)

Digit(d) ==
    CASE d = 0 -> "0" [] d = 1 -> "1" [] d = 2 -> "2" [] d = 3 -> "3"
      [] d = 4 -> "4" [] d = 5 -> "5" [] d = 6 -> "6" [] d = 7 -> "7"
      [] d = 8 -> "8" [] d = 9 -> "9"

RECURSIVE IntStr(_)
\* str(n) of a non-negative integer: its decimal digits
IntStr(n) == IF n < 10 THEN <<Digit(n)>> ELSE IntStr(n \div 10) \o <<Digit(n % 10)>>

RECURSIVE EscapeAll(_)
\* the body of repr(text): a newline becomes backslash, n
EscapeAll(s) ==
    IF s = <<>> THEN <<>>
    ELSE (IF Head(s) = NL THEN <<"\\", "n">> ELSE <<Head(s)>>) \o EscapeAll(Tail(s))

\* repr(text) of a text without quotes
PyRepr(s) == <<"'">> \o EscapeAll(s) \o <<"'">>

(***************************************************************************)
(* Values and outcomes                                                     *)
(***************************************************************************)
VNone == [kind |-> "none", b |-> FALSE, text |-> <<>>, items |-> <<>>, id |-> ""]
VBool(x) == [kind |-> "bool", b |-> x, text |-> <<>>, items |-> <<>>, id |-> ""]
VText(s) == [kind |-> "text", b |-> FALSE, text |-> s, items |-> <<>>, id |-> ""]
VList(xs) == [kind |-> "list", b |-> FALSE, text |-> <<>>, items |-> xs, id |-> ""]
\* the mapping decoded from the JSON object o
VObj(o) == [kind |-> "dict", b |-> FALSE, text |-> <<>>, items |-> <<>>, id |-> o]
\* the mapping an operation builds from object o, with the keys `keys`
VRow(o, keys) == [kind |-> "row", b |-> FALSE, text |-> keys, items |-> <<>>, id |-> o]

Return(v) == [tag |-> "return", exc |-> "", msg |-> <<>>, val |-> v]
Raise(e, m) == [tag |-> "raise", exc |-> e, msg |-> m, val |-> VNone]

(***************************************************************************)
(* json.loads, on the modelled tokens                                      *)
(***************************************************************************)
\* first position from i on that holds no whitespace (Len(s) + 1 when none)
SkipWS(s, i) ==
    CHOOSE j \in i..(Len(s) + 1) :
        /\ \A k \in i..(j - 1) : s[k] \in Whitespace
        /\ (j = Len(s) + 1 \/ s[j] \notin Whitespace)

ParseFail == [ok |-> FALSE, val |-> VNone, next |-> 0]

RECURSIVE ParseValue(_, _)
RECURSIVE ParseItems(_, _, _)
\* a JSON value starting at position i of s
ParseValue(s, i) ==
    IF i > Len(s) THEN ParseFail
    ELSE IF s[i] \in Objects THEN [ok |-> TRUE, val |-> VObj(s[i]), next |-> i + 1]
    ELSE IF s[i] = "["
         THEN LET j == SkipWS(s, i + 1)
              IN  IF j <= Len(s) /\ s[j] = "]"
                  THEN [ok |-> TRUE, val |-> VList(<<>>), next |-> j + 1]
                  ELSE ParseItems(s, j, <<>>)
    ELSE ParseFail

\* the elements of a JSON array, from position i of s, after the elements acc
ParseItems(s, i, acc) ==
    LET v == ParseValue(s, i)
    IN  IF ~v.ok THEN ParseFail
        ELSE LET j == SkipWS(s, v.next)
                 acc2 == Append(acc, v.val)
             IN  IF j > Len(s) THEN ParseFail
                 ELSE IF s[j] = "," THEN ParseItems(s, SkipWS(s, j + 1), acc2)
                 ELSE IF s[j] = "]" THEN [ok |-> TRUE, val |-> VList(acc2), next |-> j + 1]
                 ELSE ParseFail

\* json.loads(s): ok is FALSE where json.loads raises ValueError
json_loads(s) ==
    LET v == ParseValue(s, SkipWS(s, 1))
    IN  IF v.ok /\ SkipWS(s, v.next) = Len(s) + 1
        THEN [ok |-> TRUE, val |-> v.val]
        ELSE [ok |-> FALSE, val |-> VNone]

(***************************************************************************)
(* The host: __salt__['cmd.run'] and __salt__['cmd.run_all']               *)
(***************************************************************************)
\* what `where powershell` may print
WhereOutputs ==
    { <<"C:\\Windows\\System32\\WindowsPowerShell\\v1.0\\", "powershell", ".exe">>,
      <<"INFO: Could not find files for the given pattern(s).">>,
      <<>> }

\* status codes the interpreter may return
RetCodes == {0, 12}

\* what cmd.run_all may return: the two keys _psrun reads
Rets(n) == [retcode : RetCodes, stdout : TextsUpTo(n)]

WhereCall(w) ==
    [fn |-> "cmd.run", cmd |-> <<"where", "powershell">>, shell |-> "",
     retcode |-> 0, stdout |-> w]

RunAllCall(cmd, ret) ==
    [fn |-> "cmd.run_all", cmd |-> cmd, shell |-> "powershell",
     retcode |-> ret.retcode, stdout |-> ret.stdout]

(***************************************************************************)
(* _has_powershell and _psrun                                              *)
(***************************************************************************)
\* 'powershell' in <output of where powershell>
has_powershell(w) == Contains(w, <<"powershell">>)

JsonStage == <<" | ConvertTo-Json -Depth 1 -Compress">>

\* FullCommand with the serialization stage appended whatever json_output is
FullCommand_Always(cmd, json_output) == cmd \o JsonStage

\* the command given to cmd.run_all
FullCommand(cmd, json_output) == IF json_output THEN cmd \o JsonStage ELSE cmd

\* StrRet with the captured output left out of the message
StrRet_NoOutput(ret) == <<"{", "'retcode': ">> \o IntStr(ret.retcode) \o <<"}">>

\* str(ret): the mapping rendered key by key, each text by its repr
StrRet(ret) ==
    <<"{", "'retcode': ">> \o IntStr(ret.retcode)
        \o <<", ", "'stdout': ">> \o PyRepr(ret.stdout) \o <<"}">>

\* DecodeOutput without the wrapping of a single object
DecodeOutput_NoWrap(stdout) ==
    LET text == IF Len(Strip(stdout)) = 0 THEN <<"[", "]">> ELSE stdout
        parsed == json_loads(text)
    IN  IF ~parsed.ok THEN Raise("ValueError", <<"No JSON object could be decoded">>)
        ELSE Return(parsed.val)

\* the json branch of the success path
DecodeOutput(stdout) ==
    LET text == IF Len(Strip(stdout)) = 0 THEN <<"[", "]">> ELSE stdout
        parsed == json_loads(text)
    IN  IF ~parsed.ok THEN Raise("ValueError", <<"No JSON object could be decoded">>)
        ELSE IF parsed.val.kind # "list" THEN Return(VList(<<parsed.val>>))
        ELSE Return(parsed.val)

\* what _psrun does once the interpreter has answered ret
AfterRun(json_output, ret) ==
    IF ret.retcode = 0
    THEN IF json_output THEN DecodeOutput(ret.stdout) ELSE Return(VText(ret.stdout))
    ELSE Raise("CommandExecutionError", StrRet(ret))

\* _psrun(cmd, json_output), the host answering w to `where powershell` and
\* ret to the interpreter invocation
psrun(cmd, json_output, w, ret) ==
    IF has_powershell(w)
    THEN [calls |-> <<WhereCall(w), RunAllCall(FullCommand(cmd, json_output), ret)>>,
          outcome |-> AfterRun(json_output, ret)]
    ELSE [calls |-> <<WhereCall(w)>>, outcome |-> Return(VNone)]

Handed(cmd, json_output) == [cmd |-> cmd, json_output |-> json_output]

(***************************************************************************)
(* The operations                                                          *)
(***************************************************************************)
NoText == [some |-> FALSE, s |-> <<>>]
Text(s) == [some |-> TRUE, s |-> s]
NoKwargs == [k \in {} |-> <<>>]

\* a call of _psrun(cmd) whose result is the operation's result
Run(cmd, w, ret) ==
    LET r == psrun(cmd, TRUE, w, ret)
    IN  [handed |-> <<Handed(cmd, TRUE)>>, calls |-> r.calls, outcome |-> r.outcome]

\* raise SaltInvocationError(msg)
Invalid(msg) ==
    [handed |-> <<>>, calls |-> <<>>, outcome |-> Raise("SaltInvocationError", msg)]

\* install(with_gui)
install(with_gui, w, ret) ==
    LET features == <<"Hyper-V", "Hyper-V-Powershell">>
                        \o (IF with_gui = TRUE THEN <<"Hyper-V-Tools">> ELSE <<>>)
    IN  Run(<<"Install-WindowsFeature ">> \o Join([i \in 1..Len(features) |-> <<features[i]>>], ","),
            w, ret)

\* Rows with an error of the runner turned into an empty listing
Rows_Swallow(r, keys) ==
    IF r.tag = "raise" \/ r.val.kind # "list" THEN Return(VList(<<>>))
    ELSE Return(VList([i \in 1..Len(r.val.items) |-> VRow(r.val.items[i].id, keys)]))

\* `for x in <result of _psrun>: rows.append({...})`, then `return rows`
Rows(r, keys) ==
    IF r.tag = "raise" THEN r
    ELSE IF r.val.kind # "list"
         THEN Raise("TypeError", <<"'NoneType' object is not iterable">>)
    ELSE IF \E i \in 1..Len(r.val.items) : r.val.items[i].kind # "dict"
         THEN Raise("TypeError", <<"list indices must be integers">>)
    ELSE Return(VList([i \in 1..Len(r.val.items) |-> VRow(r.val.items[i].id, keys)]))

\* a listing operation: _psrun(cmd), each record re-keyed
Listing(cmd, keys, w, ret) ==
    LET r == Run(cmd, w, ret)
    IN  [r EXCEPT !.outcome = Rows(r.outcome, keys)]

vswitchs(w, ret) ==
    Listing(<<"Get-VMSwitch">>, <<"name", "computername", "type", "netadapter">>, w, ret)

netadapters(all, w, ret) ==
    LET a == IF all = FALSE THEN <<" -Physical">> ELSE <<>>
    IN  Listing(<<"Get-NetAdapter">> \o a, <<"name", "description", "mac">>, w, ret)

vms(w, ret) == Listing(<<"Get-VM">>, <<"name", "state">>, w, ret)

\* SWITCH_TYPES with the third type misspelt
SWITCH_TYPES_NoPrivate ==
    [i \in 0..2 |-> IF i = 0 THEN <<"external">>
                    ELSE IF i = 1 THEN <<"internal">> ELSE <<"privat">>]

SWITCH_TYPES ==
    [i \in 0..2 |-> IF i = 0 THEN <<"external">>
                    ELSE IF i = 1 THEN <<"internal">> ELSE <<"private">>]

\* _SWITCH_TYPES.values()
SwitchTypeValues == {SWITCH_TYPES[i] : i \in DOMAIN SWITCH_TYPES}

\* TryRun without the try: the runner's error reaches the caller
TryRun_Propagate(cmd, w, ret) ==
    LET r == Run(cmd, w, ret)
    IN  [r EXCEPT !.outcome = IF r.outcome.tag = "raise" THEN r.outcome
                              ELSE Return(VBool(TRUE))]

\* try: _psrun(cmd) / except: return False / else: return True
TryRun(cmd, w, ret) ==
    LET r == Run(cmd, w, ret)
    IN  [r EXCEPT !.outcome = IF r.outcome.tag = "raise" THEN Return(VBool(FALSE))
                              ELSE Return(VBool(TRUE))]

\* ExternalSwitch with the interface looked at only after the command has run
ExternalSwitch_Late(cmd, kwargs, w, ret) ==
    LET r == Run(cmd, w, ret)
    IN  IF "interface" \notin DOMAIN kwargs
        THEN [r EXCEPT !.outcome =
                  Raise("SaltInvocationError",
                        <<"no interface name specified for external vswitch">>)]
        ELSE [r EXCEPT !.outcome = IF r.outcome.tag = "raise" THEN Return(VBool(FALSE))
                                   ELSE Return(VBool(TRUE))]

\* the external branch of add_vswitch
ExternalSwitch(cmd, kwargs, w, ret) ==
    IF "interface" \notin DOMAIN kwargs
    THEN Invalid(<<"no interface name specified for external vswitch">>)
    ELSE TryRun(cmd \o <<" -NetAdapterName ">> \o kwargs["interface"], w, ret)

\* add_vswitch(name, switchtype, **kwargs)
add_vswitch(name, switchtype, kwargs, w, ret) ==
    IF name.some /\ Len(Strip(name.s)) > 0
    THEN LET cmd == <<"New-VMSwitch">> \o <<" -Name ">> \o name.s
         IN  IF switchtype.some /\ Len(Strip(switchtype.s)) > 0
             THEN IF switchtype.s \notin SwitchTypeValues
                  THEN Invalid(<<"switchtype ">> \o switchtype.s \o <<" not supported">>)
                  ELSE IF switchtype.s = SWITCH_TYPES[0]
                  THEN ExternalSwitch(cmd, kwargs, w, ret)
                  ELSE IF switchtype.s \in {SWITCH_TYPES[1], SWITCH_TYPES[2]}
                  THEN TryRun(cmd \o <<" -SwitchType ">> \o switchtype.s, w, ret)
                  ELSE TryRun(cmd, w, ret)
             ELSE Invalid(<<"vswitch type not specified">>)
    ELSE Invalid(<<"vswitch name not specified">>)

\* remove_vswitch(name)
remove_vswitch(name, w, ret) ==
    IF name.some /\ Len(Strip(name.s)) > 0
    THEN TryRun(<<"Remove-VMSwitch -Force">> \o <<" -Name ">> \o name.s, w, ret)
    ELSE Invalid(<<"vswitch name not specified">>)

filter_properties == [mac |-> "MacAddress", name |-> "Name"]

\* the filter stage
get_cmd(tgt, tgt_type) ==
    <<"Get-NetAdapter -Physical | Where {$_.", filter_properties[tgt_type], " -eq \"">>
        \o tgt \o <<"\"}">>

\* the rename stage
rename_cmd(kwargs) ==
    IF "name" \in DOMAIN kwargs
    THEN Text(<<"Rename-NetAdapter", " -NewName ">> \o kwargs["name"] \o <<" -PassThru">>)
    ELSE NoText

\* the VLAN property-set stage
set_cmd(kwargs) ==
    IF "vlan" \in DOMAIN kwargs
    THEN Text(<<"Set-NetAdapter", " -VlanID ">> \o kwargs["vlan"] \o <<" -PassThru">>)
    ELSE NoText

\* RunStages with the rename and the VLAN change run as two commands
RunStages_Separately(get, rename, set, w, ret) ==
    IF rename.some /\ set.some
    THEN LET r1 == Run(Join(<<get, rename.s>>, " | "), w, ret)
             r2 == Run(Join(<<get, set.s>>, " | "), w, ret)
         IN  [handed |-> r1.handed \o r2.handed, calls |-> r1.calls \o r2.calls,
              outcome |-> r2.outcome]
    ELSE IF rename.some /\ ~set.some
    THEN Run(Join(<<get, rename.s>>, " | "), w, ret)
    ELSE IF set.some
    THEN Run(Join(<<get, set.s>>, " | "), w, ret)
    ELSE [handed |-> <<>>, calls |-> <<>>, outcome |-> Return(VBool(FALSE))]

\* RunStages with the VLAN stage put before the rename stage
RunStages_Swapped(get, rename, set, w, ret) ==
    IF rename.some /\ set.some
    THEN Run(Join(<<get, set.s, rename.s>>, " | "), w, ret)
    ELSE IF rename.some /\ ~set.some
    THEN Run(Join(<<get, rename.s>>, " | "), w, ret)
    ELSE IF set.some
    THEN Run(Join(<<get, set.s>>, " | "), w, ret)
    ELSE [handed |-> <<>>, calls |-> <<>>, outcome |-> Return(VBool(FALSE))]

\* the closing if/elif/else of set_netadapter
RunStages(get, rename, set, w, ret) ==
    IF rename.some /\ set.some
    THEN Run(Join(<<get, rename.s, set.s>>, " | "), w, ret)
    ELSE IF rename.some /\ ~set.some
    THEN Run(Join(<<get, rename.s>>, " | "), w, ret)
    ELSE IF set.some
    THEN Run(Join(<<get, set.s>>, " | "), w, ret)
    ELSE [handed |-> <<>>, calls |-> <<>>, outcome |-> Return(VBool(FALSE))]

\* set_netadapter(tgt, tgt_type, **kwargs)
set_netadapter(tgt, tgt_type, kwargs, w, ret) ==
    IF tgt_type \notin DOMAIN filter_properties
    THEN Invalid(<<"tgt_type ", tgt_type, " is not allowed">>)
    ELSE RunStages(get_cmd(tgt, tgt_type), rename_cmd(kwargs), set_cmd(kwargs), w, ret)

(***************************************************************************)
(* State machine                                                           *)
(***************************************************************************)
NoArgs ==
    [name |-> NoText, switchtype |-> NoText, kwargs |-> NoKwargs, flag |-> FALSE,
     tgt |-> <<>>, tgt_type |-> "", cmd |-> <<>>, json_output |-> FALSE]

Init ==
    /\ pc = "idle"
    /\ op = "none"
    /\ args = NoArgs
    /\ handed = <<>>
    /\ calls = <<>>
    /\ outcome = Return(VNone)

\* the result r of the operation o called with the arguments a
Finish(o, a, r) ==
    /\ pc' = "done"
    /\ op' = o
    /\ args' = a
    /\ handed' = r.handed
    /\ calls' = r.calls
    /\ outcome' = r.outcome

\* commands a caller hands to _psrun directly
Commands == { <<"Get-VM">>, <<"Get-VMSwitch">> }

\* arguments the operations are called with
Names == {NoText, Text(<<>>), Text(<<SP>>), Text(<<"sw0">>), Text(<<SP, "sw0">>)}
SwitchTypeArgs ==
    {NoText, Text(<<>>), Text(<<SP>>), Text(<<"external">>), Text(<<"internal">>),
     Text(<<"private">>), Text(<<"bogus">>), Text(<<"external", SP>>)}
AddKwargs == {NoKwargs, [k \in {"interface"} |-> <<"eth0">>]}
Targets == { <<"00-00-00-00-00-00">>, <<"Ethernet", SP, "5">> }
TargetTypes == {"mac", "name", "guid"}
SetKwargs ==
    {[k \in D |-> IF k = "name" THEN <<"vnic0">> ELSE <<"42">>] : D \in SUBSET {"name", "vlan"}}

Call_psrun ==
    /\ pc = "idle"
    /\ \E cmd \in Commands, json_output \in BOOLEAN, w \in WhereOutputs, ret \in Rets(MaxLen) :
          LET r == psrun(cmd, json_output, w, ret)
          IN  Finish("_psrun", [NoArgs EXCEPT !.cmd = cmd, !.json_output = json_output],
                     [handed |-> <<Handed(cmd, json_output)>>,
                      calls |-> r.calls, outcome |-> r.outcome])

Call_install ==
    /\ pc = "idle"
    /\ \E with_gui \in BOOLEAN, w \in WhereOutputs, ret \in Rets(MaxOpLen) :
          Finish("install", [NoArgs EXCEPT !.flag = with_gui], install(with_gui, w, ret))

Call_vswitchs ==
    /\ pc = "idle"
    /\ \E w \in WhereOutputs, ret \in Rets(MaxOpLen) :
          Finish("vswitchs", NoArgs, vswitchs(w, ret))

Call_add_vswitch ==
    /\ pc = "idle"
    /\ \E name \in Names, switchtype \in SwitchTypeArgs, kwargs \in AddKwargs,
          w \in WhereOutputs, ret \in Rets(MaxOpLen) :
          Finish("add_vswitch",
                 [NoArgs EXCEPT !.name = name, !.switchtype = switchtype, !.kwargs = kwargs],
                 add_vswitch(name, switchtype, kwargs, w, ret))

Call_remove_vswitch ==
    /\ pc = "idle"
    /\ \E name \in Names, w \in WhereOutputs, ret \in Rets(MaxOpLen) :
          Finish("remove_vswitch", [NoArgs EXCEPT !.name = name], remove_vswitch(name, w, ret))

Call_netadapters ==
    /\ pc = "idle"
    /\ \E all \in BOOLEAN, w \in WhereOutputs, ret \in Rets(MaxOpLen) :
          Finish("netadapters", [NoArgs EXCEPT !.flag = all], netadapters(all, w, ret))

Call_set_netadapter ==
    /\ pc = "idle"
    /\ \E tgt \in Targets, tgt_type \in TargetTypes, kwargs \in SetKwargs,
          w \in WhereOutputs, ret \in Rets(MaxOpLen) :
          Finish("set_netadapter",
                 [NoArgs EXCEPT !.tgt = tgt, !.tgt_type = tgt_type, !.kwargs = kwargs],
                 set_netadapter(tgt, tgt_type, kwargs, w, ret))

Call_vms ==
    /\ pc = "idle"
    /\ \E w \in WhereOutputs, ret \in Rets(MaxOpLen) :
          Finish("vms", NoArgs, vms(w, ret))

\* the caller has the outcome; nothing of the call is kept
ReturnToCaller ==
    /\ pc = "done"
    /\ pc' = "idle"
    /\ op' = "none"
    /\ args' = NoArgs
    /\ handed' = <<>>
    /\ calls' = <<>>
    /\ outcome' = Return(VNone)

Next ==
    \/ Call_psrun
    \/ Call_install
    \/ Call_vswitchs
    \/ Call_add_vswitch
    \/ Call_remove_vswitch
    \/ Call_netadapters
    \/ Call_set_netadapter
    \/ Call_vms
    \/ ReturnToCaller

Spec == Init /\ [][Next]_vars

(***************************************************************************)
(* Properties                                                              *)
(***************************************************************************)
Done == pc = "done"

PublicOps ==
    {"install", "vswitchs", "add_vswitch", "remove_vswitch", "netadapters",
     "set_netadapter", "vms"}

\* positions of the interpreter invocations and of the availability checks
RunAlls == {i \in DOMAIN calls : calls[i].fn = "cmd.run_all"}
Wheres == {i \in DOMAIN calls : calls[i].fn = "cmd.run"}

NonBlank(x) == x.some /\ Strip(x.s) # <<>>

ValidSwitchTypes == { <<"external">>, <<"internal">>, <<"private">> }

ReturnedBool(x) == outcome.tag = "return" /\ outcome.val = VBool(x)

\* ---- C1 -----------------------------------------------------------------
\* C1, as stated: whenever the interpreter invocation made by _psrun returns a
\* non-zero status code, _psrun raises CommandExecutionError with a message
\* that contains the status code and the captured output text.
C1_Original ==
    (Done /\ op = "_psrun") =>
        \A i \in RunAlls : calls[i].retcode # 0 =>
            /\ outcome.tag = "raise"
            /\ outcome.exc = "CommandExecutionError"
            /\ Contains(outcome.msg, IntStr(calls[i].retcode))
            /\ Contains(outcome.msg, calls[i].stdout)

\* C1, amended: whenever the interpreter invocation made by _psrun returns a
\* non-zero status code, in json and in non-json mode, _psrun raises
\* CommandExecutionError and returns no value; the message contains the status
\* code in decimal and the captured output text as repr() renders it (quoted,
\* a newline written as backslash-n), which is the text itself when the text
\* holds no newline.
C1_ExecutionError ==
    (Done /\ op = "_psrun") =>
        \A i \in RunAlls : calls[i].retcode # 0 =>
            /\ outcome.tag = "raise"
            /\ outcome.exc = "CommandExecutionError"
            /\ Contains(outcome.msg, IntStr(calls[i].retcode))
            /\ Contains(outcome.msg, <<"'">> \o EscapeAll(calls[i].stdout) \o <<"'">>)
            /\ (\A k \in DOMAIN calls[i].stdout : calls[i].stdout[k] # NL)
                    => Contains(outcome.msg, calls[i].stdout)

C1_Witness ==
    /\ Done /\ op = "_psrun" /\ ~args.json_output
    /\ outcome.exc = "CommandExecutionError"
    /\ \E i \in RunAlls : calls[i].retcode = 12 /\ calls[i].stdout = <<"o1", NL, "o2">>

\* ---- C2 -----------------------------------------------------------------
\* C2: when the availability check finds no PowerShell, the interpreter is not
\* invoked and every public operation called with valid arguments ends in a
\* failure (an exception, or a False or empty return), never in a success.
C2_Claim ==
    (Done /\ op \in PublicOps /\ calls # <<>> /\ ~has_powershell(calls[1].stdout)) =>
        /\ RunAlls = {}
        /\ \/ outcome.tag = "raise"
           \/ outcome.val = VBool(FALSE)
           \/ outcome.val = VNone

\* ---- C3 -----------------------------------------------------------------
NoWS(s) == SelectSeq(s, LAMBDA c : c \notin Whitespace)

\* the JSON text of the array of the objects objs
ArrayText(objs) == <<"[">> \o Join([i \in 1..Len(objs) |-> <<objs[i]>>], ",") \o <<"]">>

ObjectSeqs == UNION {[1..k -> Objects] : k \in 0..MaxLen}

\* C3: a status-0 invocation in json mode returns the empty sequence when the
\* trimmed output is empty, the one-element sequence of the object when the
\* output is a single JSON object, and the N objects in their order when the
\* output is a JSON array of N objects.
C3_Normalised ==
    (Done /\ op = "_psrun" /\ args.json_output) =>
        \A i \in RunAlls : calls[i].retcode = 0 =>
            LET s == calls[i].stdout
            IN  /\ Strip(s) = <<>> => outcome = Return(VList(<<>>))
                /\ \A o \in Objects :
                      Strip(s) = <<o>> => outcome = Return(VList(<<VObj(o)>>))
                /\ \A objs \in ObjectSeqs :
                      NoWS(s) = ArrayText(objs) =>
                          outcome = Return(VList([k \in 1..Len(objs) |-> VObj(objs[k])]))

C3_Witness ==
    /\ Done /\ op = "_psrun" /\ args.json_output
    /\ \E i \in RunAlls : calls[i].retcode = 0 /\ calls[i].stdout = <<"[", "o2", ",", "o1", "]">>
    /\ outcome = Return(VList(<<VObj("o2"), VObj("o1")>>))

\* ---- C4 -----------------------------------------------------------------
\* the argument errors the operations are documented to reject
BadArguments ==
    \/ /\ op = "add_vswitch"
       /\ \/ ~NonBlank(args.name)
          \/ ~NonBlank(args.switchtype)
          \/ args.switchtype.s \notin ValidSwitchTypes
          \/ args.switchtype.s = <<"external">> /\ "interface" \notin DOMAIN args.kwargs
    \/ op = "remove_vswitch" /\ ~NonBlank(args.name)
    \/ op = "set_netadapter" /\ args.tgt_type \notin {"mac", "name"}

\* C4: a call with bad arguments raises SaltInvocationError, and whenever
\* SaltInvocationError is raised nothing was handed to _psrun and no
\* invocation (availability check or command) was made in that call.
C4_InvalidBeforeInvocation ==
    Done =>
        /\ BadArguments => (outcome.tag = "raise" /\ outcome.exc = "SaltInvocationError")
        /\ outcome.exc = "SaltInvocationError" => (calls = <<>> /\ handed = <<>>)

C4_Witness ==
    /\ Done /\ op = "add_vswitch"
    /\ args.name = Text(<<"sw0">>) /\ args.switchtype = Text(<<"external">>)
    /\ "interface" \notin DOMAIN args.kwargs
    /\ outcome.exc = "SaltInvocationError" /\ calls = <<>>

\* ---- C5 -----------------------------------------------------------------
\* C5, as stated: a call of a public operation makes at most one invocation
\* through cmd.run and cmd.run_all together.
C5_Original == (Done /\ op \in PublicOps) => Len(calls) <= 1

\* C5, amended: a call of a public operation makes at most one interpreter
\* invocation (cmd.run_all) and, before it, exactly one availability check
\* (cmd.run); at most two invocations in all, and none beside the availability
\* check when the check fails.
C5_AtMostOneRun ==
    (Done /\ op \in PublicOps) =>
        /\ Len(calls) <= 2
        /\ Cardinality(RunAlls) <= 1
        /\ Cardinality(Wheres) <= 1
        /\ \A i \in RunAlls : i = 2 /\ calls[1].fn = "cmd.run" /\ has_powershell(calls[1].stdout)

C5_Witness ==
    /\ Done /\ op = "set_netadapter" /\ DOMAIN args.kwargs = {"name", "vlan"}
    /\ Len(calls) = 2 /\ calls[1].fn = "cmd.run" /\ calls[2].fn = "cmd.run_all"

\* ---- C6 -----------------------------------------------------------------
\* C6, as stated: add_vswitch and remove_vswitch, once validation has passed,
\* return False when the interpreter invocation returns a non-zero status and
\* True when it returns status 0, and never raise an execution error.
C6_Original ==
    (Done /\ op \in {"add_vswitch", "remove_vswitch"}) =>
        /\ outcome.exc # "CommandExecutionError"
        /\ \A i \in RunAlls :
              /\ calls[i].retcode # 0 => ReturnedBool(FALSE)
              /\ calls[i].retcode = 0 => ReturnedBool(TRUE)

\* the output is blank or is the text of a JSON value
Decodable(s) == Strip(s) = <<>> \/ json_loads(s).ok

\* C6, amended: add_vswitch and remove_vswitch never propagate an execution
\* error (nor any other error of the command runner): once validation has
\* passed they return False when the interpreter invocation returns a non-zero
\* status, True when it returns status 0 with output that is blank or decodes
\* as JSON, and False also when it returns status 0 with output that does not
\* decode (the decoding error is caught like the execution error).
C6_BooleanResult ==
    (Done /\ op \in {"add_vswitch", "remove_vswitch"}) =>
        /\ outcome.exc \in {"", "SaltInvocationError"}
        /\ \A i \in RunAlls :
              /\ calls[i].retcode # 0 => ReturnedBool(FALSE)
              /\ (calls[i].retcode = 0 /\ Decodable(calls[i].stdout)) => ReturnedBool(TRUE)
              /\ (calls[i].retcode = 0 /\ ~Decodable(calls[i].stdout)) => ReturnedBool(FALSE)

C6_Witness ==
    /\ Done /\ op = "remove_vswitch" /\ args.name = Text(<<"sw0">>)
    /\ \E i \in RunAlls : calls[i].retcode = 12 /\ calls[i].stdout = <<"o1">>
    /\ ReturnedBool(FALSE)

\* ---- C7 -----------------------------------------------------------------
\* C7: add_vswitch with a non-blank name, one of the three switch types and,
\* for external, an interface never raises SaltInvocationError: it hands one
\* New-VMSwitch command for that name to _psrun and returns a boolean.
C7_ValidTypesAccepted ==
    (/\ Done /\ op = "add_vswitch"
     /\ NonBlank(args.name)
     /\ args.switchtype.some /\ args.switchtype.s \in ValidSwitchTypes
     /\ (args.switchtype.s = <<"external">> => "interface" \in DOMAIN args.kwargs)) =>
        /\ outcome.tag = "return" /\ outcome.val.kind = "bool"
        /\ Len(handed) = 1
        /\ SubSeq(handed[1].cmd, 1, 2 + Len(args.name.s))
                = <<"New-VMSwitch", " -Name ">> \o args.name.s

C7_Witness ==
    /\ Done /\ op = "add_vswitch"
    /\ args.name = Text(<<"sw0">>) /\ args.switchtype = Text(<<"private">>)
    /\ Len(handed) = 1 /\ ReturnedBool(TRUE)
    /\ RunAlls # {}

\* ---- C8 -----------------------------------------------------------------
\* the stages a set_netadapter call asks for, in pipeline order
StagesAsked ==
    <<get_cmd(args.tgt, args.tgt_type)>>
        \o (IF "name" \in DOMAIN args.kwargs
            THEN << <<"Rename-NetAdapter", " -NewName ">> \o args.kwargs["name"] \o <<" -PassThru">> >>
            ELSE <<>>)
        \o (IF "vlan" \in DOMAIN args.kwargs
            THEN << <<"Set-NetAdapter", " -VlanID ">> \o args.kwargs["vlan"] \o <<" -PassThru">> >>
            ELSE <<>>)

\* C8: set_netadapter with a supported selector kind returns False without
\* any invocation when neither name nor vlan is given; otherwise it hands
\* exactly one command to _psrun: the filter stage, then the rename stage if
\* asked, then the VLAN stage if asked.
C8_SetNetadapterStages ==
    (Done /\ op = "set_netadapter" /\ args.tgt_type \in {"mac", "name"}) =>
        IF DOMAIN args.kwargs \cap {"name", "vlan"} = {}
        THEN ReturnedBool(FALSE) /\ calls = <<>> /\ handed = <<>>
        ELSE /\ Len(handed) = 1
             /\ handed[1].cmd = Join(StagesAsked, " | ")
             /\ Cardinality(RunAlls) <= 1
             /\ \A i \in RunAlls : calls[i].cmd = handed[1].cmd \o JsonStage

C8_Witness ==
    /\ Done /\ op = "set_netadapter" /\ args.tgt_type = "name"
    /\ DOMAIN args.kwargs = {}
    /\ ReturnedBool(FALSE) /\ calls = <<>>

\* ---- C9 -----------------------------------------------------------------
\* C9: in install, vswitchs, netadapters and vms an execution error of the
\* command runner reaches the caller as it was raised: a non-zero status ends
\* the call in CommandExecutionError carrying the rendered result, never in a
\* returned value.
C9_ErrorsPropagate ==
    (Done /\ op \in {"install", "vswitchs", "netadapters", "vms"}) =>
        \A i \in RunAlls : calls[i].retcode # 0 =>
            /\ outcome.tag = "raise"
            /\ outcome.exc = "CommandExecutionError"
            /\ outcome.msg = StrRet([retcode |-> calls[i].retcode, stdout |-> calls[i].stdout])

C9_Witness ==
    /\ Done /\ op = "vswitchs"
    /\ \E i \in RunAlls : calls[i].retcode = 12
    /\ outcome.tag = "raise" /\ outcome.exc = "CommandExecutionError"

\* ---- C10 ----------------------------------------------------------------
\* C10: the command given to the interpreter is the command handed to _psrun
\* followed by the ConvertTo-Json stage if json_output is true and is that
\* command alone if it is false; at status 0 with json_output false _psrun
\* returns the captured output as it is.
C10_RawOutput ==
    Done =>
        \A i \in RunAlls :
            /\ Len(handed) = 1
            /\ handed[1].json_output =>
                  calls[i].cmd = handed[1].cmd \o <<" | ConvertTo-Json -Depth 1 -Compress">>
            /\ ~handed[1].json_output => calls[i].cmd = handed[1].cmd
            /\ (op = "_psrun" /\ ~args.json_output /\ calls[i].retcode = 0) =>
                  outcome = Return(VText(calls[i].stdout))

C10_Witness ==
    /\ Done /\ op = "_psrun" /\ ~args.json_output
    /\ \E i \in RunAlls :
          /\ calls[i].retcode = 0 /\ calls[i].stdout = <<NL, "[", NL>>
          /\ calls[i].cmd = args.cmd
    /\ outcome = Return(VText(<<NL, "[", NL>>))

====
